---- MODULE Spec2Model ----
(***************************************************************************)
(* The todo service of src/src/main.rs: five axum handlers, each of which  *)
(* sends one SQL statement through a shared sqlx connection pool to the    *)
(* table todos(id serial primary key, title, completed) and maps the       *)
(* sqlx result to an HTTP response.                                        *)
(*                                                                         *)
(* A request is a task: the router starts the handler, the handler hands   *)
(* its statement to the pool and suspends (pc = "waiting"), the pool       *)
(* gives it a connection (pc = "holding"), the store executes the          *)
(* statement atomically, the connection goes back to the pool and the      *)
(* handler's match turns the result into the response (pc = "done").       *)
(***************************************************************************)
EXTENDS Integers, Sequences, FiniteSets, TLC

\* -------------------------------------------------------------- constants
\* PgPoolOptions::max_connections
MaxConnections == 5

\* ------------------------------------------------------------------ bounds
\* request tasks alive at once
MaxInFlight == 2
\* largest id the sequence hands out and a client asks for
MaxId == 2
\* requests of a burst beyond the connections of the pool
PoolExtra == 1

Titles == {"a", "b"}
Ids == 1..MaxId
Requests == 1..MaxInFlight
PoolRequests == 1..(MaxConnections + PoolExtra)

\* ------------------------------------------------------------- data model
Todo(i, t, c) == [id |-> i, title |-> t, completed |-> c]

NoRow == [id |-> 0]
NoRequest == [op |-> "none"]
NoResult == [tag |-> "none"]
NoResponse == [status |-> 0]

\* The column default of todos.completed, which the INSERT leaves to the store.
ColumnDefaultCompleted == FALSE

\* sqlx::Result values
Ok(v) == [tag |-> "Ok", value |-> v]
RowNotFound == [tag |-> "RowNotFound"]
Err(kind) == [tag |-> "Err", error |-> kind]
IsFailure(res) == res.tag = "Err"

\* HTTP responses
Response(s, b) == [status |-> s, body |-> b]
CREATED == 201
OK == 200
NO_CONTENT == 204
NOT_FOUND == 404
INTERNAL_SERVER_ERROR == 500

IdsOf(tbl) == {t.id : t \in tbl}
RowsWithId(tbl, i) == {t \in tbl : t.id = i}

\* The orders in which a SELECT without ORDER BY may return the rows.
Orderings(S) ==
    {s \in [1..Cardinality(S) -> S] : \A i, j \in 1..Cardinality(S) : s[i] = s[j] => i = j}

\* ------------------------------------------------------- store statements
\* Each statement yields the set of outcomes the store can produce:
\* the sqlx result, the table afterwards, the id sequence afterwards.
Outcome(res, tbl, s) == [result |-> res, table |-> tbl, seq |-> s]

\* As InsertReturning, for a table whose id column has no primary key.
InsertReturning_NoPrimaryKey(tbl, s, title) ==
    LET row == Todo(s, title, ColumnDefaultCompleted)
    IN  {Outcome(Ok(row), tbl \cup {row}, s + 1), Outcome(Err("Io"), tbl, s)}

\* INSERT INTO todos (title) VALUES ($1) RETURNING id, title, completed
InsertReturning(tbl, s, title) ==
    LET row == Todo(s, title, ColumnDefaultCompleted)
    IN  (IF s \in IdsOf(tbl)
            THEN {Outcome(Err("Database"), tbl, s + 1)}
            ELSE {Outcome(Ok(row), tbl \cup {row}, s + 1)})
        \cup {Outcome(Err("Io"), tbl, s)}

\* As SelectAll, with the result cut to its first row.
SelectAll_FirstRowOnly(tbl, s) ==
    {Outcome(Ok(IF rows = <<>> THEN <<>> ELSE <<rows[1]>>), tbl, s) : rows \in Orderings(tbl)}
    \cup {Outcome(Err("Io"), tbl, s)}

\* SELECT id, title, completed FROM todos
SelectAll(tbl, s) ==
    {Outcome(Ok(rows), tbl, s) : rows \in Orderings(tbl)}
    \cup {Outcome(Err("Io"), tbl, s)}

\* As SelectById, without the WHERE clause: fetch_one takes the first row.
SelectById_NoWhere(tbl, s, i) ==
    (IF tbl = {}
        THEN {Outcome(RowNotFound, tbl, s)}
        ELSE {Outcome(Ok(row), tbl, s) : row \in tbl})
    \cup {Outcome(Err("Io"), tbl, s)}

\* SELECT id, title, completed FROM todos WHERE id = $1
SelectById(tbl, s, i) ==
    (IF RowsWithId(tbl, i) = {}
        THEN {Outcome(RowNotFound, tbl, s)}
        ELSE {Outcome(Ok(row), tbl, s) : row \in RowsWithId(tbl, i)})
    \cup {Outcome(Err("Io"), tbl, s)}

\* As UpdateReturning, without "completed = false" in the SET list.
UpdateReturning_KeepsCompleted(tbl, s, title, i) ==
    (IF RowsWithId(tbl, i) = {}
        THEN {Outcome(RowNotFound, tbl, s)}
        ELSE {Outcome(Ok(Todo(row.id, title, row.completed)),
                      (tbl \ {row}) \cup {Todo(row.id, title, row.completed)}, s)
                 : row \in RowsWithId(tbl, i)})
    \cup {Outcome(Err("Io"), tbl, s)}

\* As UpdateReturning, written as an upsert: a missing row is inserted.
UpdateReturning_Upsert(tbl, s, title, i) ==
    {Outcome(Ok(Todo(i, title, FALSE)),
             (tbl \ RowsWithId(tbl, i)) \cup {Todo(i, title, FALSE)}, s),
     Outcome(Err("Io"), tbl, s)}

\* UPDATE todos SET title = $1, completed = false WHERE id = $2 RETURNING ...
UpdateReturning(tbl, s, title, i) ==
    (IF RowsWithId(tbl, i) = {}
        THEN {Outcome(RowNotFound, tbl, s)}
        ELSE {Outcome(Ok(Todo(row.id, title, FALSE)),
                      (tbl \ {row}) \cup {Todo(row.id, title, FALSE)}, s)
                 : row \in RowsWithId(tbl, i)})
    \cup {Outcome(Err("Io"), tbl, s)}

\* DELETE FROM todos WHERE id = $1     (Ok carries rows_affected)
DeleteById(tbl, s, i) ==
    {Outcome(Ok(Cardinality(RowsWithId(tbl, i))), tbl \ RowsWithId(tbl, i), s),
     Outcome(Err("Io"), tbl, s)}

\* --------------------------------------------------- the handlers' matches
\* As create_match, answering 200 instead of 201.
create_match_Status200(result) ==
    IF result.tag = "Ok"
        THEN Response(OK, result.value)
        ELSE Response(INTERNAL_SERVER_ERROR,
                      [msg |-> "Failed to create todo", error |-> result])

create_match(result) ==
    IF result.tag = "Ok"
        THEN Response(CREATED, result.value)
        ELSE Response(INTERNAL_SERVER_ERROR,
                      [msg |-> "Failed to create todo", error |-> result])

get_todos_match(result) ==
    IF result.tag = "Ok"
        THEN Response(OK, result.value)
        ELSE Response(INTERNAL_SERVER_ERROR,
                      [msg |-> "Failed to fetch todos", error |-> result])

\* As get_todo_match, without the RowNotFound arm.
get_todo_match_NotFoundAs500(result, i) ==
    IF result.tag = "Ok"
        THEN Response(OK, result.value)
        ELSE Response(INTERNAL_SERVER_ERROR,
                      [msg |-> "Failed to fetch todo", error |-> result])

get_todo_match(result, i) ==
    IF result.tag = "Ok"
        THEN Response(OK, result.value)
        ELSE IF result.tag = "RowNotFound"
            THEN Response(NOT_FOUND, [msg |-> "Todo not found", id |-> i])
            ELSE Response(INTERNAL_SERVER_ERROR,
                          [msg |-> "Failed to fetch todo", error |-> result])

\* As update_match, with every error taken for a missing row.
update_match_ErrorsAs404(result, i) ==
    IF result.tag = "Ok"
        THEN Response(OK, result.value)
        ELSE Response(NOT_FOUND, [msg |-> "Todo not found", id |-> i])

update_match(result, i) ==
    IF result.tag = "Ok"
        THEN Response(OK, result.value)
        ELSE IF result.tag = "RowNotFound"
            THEN Response(NOT_FOUND, [msg |-> "Todo not found", id |-> i])
            ELSE Response(INTERNAL_SERVER_ERROR,
                          [msg |-> "Failed to update todo", error |-> result])

\* As delete_match, without the rows_affected guard.
delete_match_IgnoresRowsAffected(result, i) ==
    IF result.tag = "Ok"
        THEN Response(NO_CONTENT, <<>>)
        ELSE Response(INTERNAL_SERVER_ERROR,
                      [msg |-> "Failed to delete todo", error |-> result])

delete_match(result, i) ==
    IF result.tag = "Ok" /\ result.value > 0
        THEN Response(NO_CONTENT, <<>>)
        ELSE IF result.tag = "Ok"
            THEN Response(NOT_FOUND, [msg |-> "Todo not found", id |-> i])
            ELSE Response(INTERNAL_SERVER_ERROR,
                          [msg |-> "Failed to delete todo", error |-> result])

\* The match of the handler the router chose for the request.
HandlerMatch(rq, result) ==
    CASE rq.op = "create" -> create_match(result)
      [] rq.op = "list"   -> get_todos_match(result)
      [] rq.op = "get"    -> get_todo_match(result, rq.id)
      [] rq.op = "update" -> update_match(result, rq.id)
      [] rq.op = "delete" -> delete_match(result, rq.id)

\* ---------------------------------------------------------------- requests
\* The routes of the Router: method and path, with the extracted inputs.
Routes ==
    {[op |-> "create", id |-> 0, title |-> t] : t \in Titles}
    \cup {[op |-> "list", id |-> 0, title |-> ""]}
    \cup {[op |-> "get", id |-> i, title |-> ""] : i \in Ids}
    \cup {[op |-> "update", id |-> i, title |-> t] : i \in Ids, t \in Titles}
    \cup {[op |-> "delete", id |-> i, title |-> ""] : i \in Ids}

ListOnly == {rq \in Routes : rq.op = "list"}

\* The rows a database may hold when the service starts. No handler sets
\* completed to true, so such a row was written by another client of the
\* database, with an id of its choosing: the id sequence may still be behind it.
SeedRows == {Todo(MaxId, "b", TRUE)}

VARIABLES
    table,      \* the rows of todos
    seq,        \* the next value of the serial id sequence
    pc,         \* per request task: "idle", "waiting", "holding", "done"
    req,        \* per task: the request being handled
    queue,      \* the tasks waiting for a connection, first come first served
    result,     \* per task: the sqlx result its statement returned
    resp,       \* per task: the response it sent
    issued,     \* per task: how many times the handler submitted a statement
    sent,       \* per task: how many responses it produced
    atStart,    \* per task: whether a row with the requested id existed on arrival
    rivals,     \* per task: other tasks that created or deleted that row since
    blocked,    \* per task: whether every connection was out when it arrived
    created,    \* per id: the todo the last successful create returned, until deleted
    updated,    \* per id: whether an update changed that todo since
    deleted     \* ids deleted by a 204 delete and not created again since

vars == <<table, seq, pc, req, queue, result, resp, issued, sent,
          atStart, rivals, blocked, created, updated, deleted>>

Tasks == DOMAIN pc

InUse == {r \in Tasks : pc[r] = "holding"}

InFlightCreates == {r \in Tasks : pc[r] \in {"waiting", "holding"} /\ req[r].op = "create"}

InitTasks(T) ==
    /\ pc = [r \in T |-> "idle"]
    /\ req = [r \in T |-> NoRequest]
    /\ queue = <<>>
    /\ result = [r \in T |-> NoResult]
    /\ resp = [r \in T |-> NoResponse]
    /\ issued = [r \in T |-> 0]
    /\ sent = [r \in T |-> 0]
    /\ atStart = [r \in T |-> FALSE]
    /\ rivals = [r \in T |-> {}]
    /\ blocked = [r \in T |-> FALSE]
    /\ created = [i \in Ids |-> NoRow]
    /\ updated = [i \in Ids |-> FALSE]
    /\ deleted = {}

Init ==
    /\ table \in SUBSET SeedRows
    /\ seq = 1
    /\ InitTasks(Requests)

InitPool ==
    /\ table = SeedRows
    /\ seq = MaxId + 1
    /\ InitTasks(PoolRequests)

\* ----------------------------------------------------------------- actions
\* The router starts the handler for a request; the handler builds its query
\* and calls fetch_one / fetch_all / execute on the pool, where it waits.
Arrive(r, workload) ==
    /\ pc[r] = "idle"
    /\ \A q \in Tasks : q < r => pc[q] # "idle"
    /\ \E rq \in workload :
        /\ rq.op = "create" => seq + Cardinality(InFlightCreates) <= MaxId
        /\ req' = [req EXCEPT ![r] = rq]
        /\ atStart' = [atStart EXCEPT ![r] = rq.id \in IdsOf(table)]
    /\ pc' = [pc EXCEPT ![r] = "waiting"]
    /\ queue' = Append(queue, r)
    /\ issued' = [issued EXCEPT ![r] = @ + 1]
    /\ blocked' = [blocked EXCEPT ![r] = Cardinality(InUse) = MaxConnections]
    /\ UNCHANGED <<table, seq, result, resp, sent, rivals, created, updated, deleted>>

\* As Acquire, for a pool without max_connections.
Acquire_Unbounded(r) ==
    /\ pc[r] = "waiting"
    /\ queue # <<>> /\ Head(queue) = r
    /\ pc' = [pc EXCEPT ![r] = "holding"]
    /\ queue' = Tail(queue)
    /\ UNCHANGED <<table, seq, req, result, resp, issued, sent,
                   atStart, rivals, blocked, created, updated, deleted>>

\* The pool hands a connection to the first waiting task, while fewer than
\* max_connections are out.
Acquire(r) ==
    /\ pc[r] = "waiting"
    /\ queue # <<>> /\ Head(queue) = r
    /\ Cardinality(InUse) < MaxConnections
    /\ pc' = [pc EXCEPT ![r] = "holding"]
    /\ queue' = Tail(queue)
    /\ UNCHANGED <<table, seq, req, result, resp, issued, sent,
                   atStart, rivals, blocked, created, updated, deleted>>

Without(s, r) == SelectSeq(s, LAMBDA x : x # r)

\* The task's call returns `res` and its match sends the response.
Finish(r, res) ==
    /\ result' = [result EXCEPT ![r] = res]
    /\ resp' = [resp EXCEPT ![r] = HandlerMatch(req[r], res)]
    /\ sent' = [sent EXCEPT ![r] = @ + 1]
    /\ pc' = [pc EXCEPT ![r] = "done"]

\* The pool gives up on a waiting task (acquire timeout): the call returns
\* Err(PoolTimedOut) without the statement reaching the store.
PoolTimedOut(r) ==
    /\ pc[r] = "waiting"
    /\ Finish(r, Err("PoolTimedOut"))
    /\ queue' = Without(queue, r)
    /\ UNCHANGED <<table, seq, req, issued, atStart, rivals, blocked,
                   created, updated, deleted>>

\* Tasks other than r whose request names id i learn that r created or
\* deleted the row with that id.
NoteRival(r, i) ==
    [q \in Tasks |->
        IF q # r /\ pc[q] # "idle" /\ req[q].id = i
            THEN rivals[q] \cup {r} ELSE rivals[q]]

create_todo(r) ==
    /\ pc[r] = "holding" /\ req[r].op = "create"
    /\ \E out \in InsertReturning(table, seq, req[r].title) :
        /\ table' = out.table
        /\ seq' = out.seq
        /\ Finish(r, out.result)
        /\ IF out.result.tag = "Ok"
              THEN /\ created' = [created EXCEPT ![out.result.value.id] =
                                                create_match(out.result).body]
                   /\ updated' = [updated EXCEPT ![out.result.value.id] = FALSE]
                   /\ deleted' = deleted \ {out.result.value.id}
                   /\ rivals' = NoteRival(r, out.result.value.id)
              ELSE UNCHANGED <<created, updated, deleted, rivals>>
    /\ UNCHANGED <<req, queue, issued, atStart, blocked>>

get_todos(r) ==
    /\ pc[r] = "holding" /\ req[r].op = "list"
    /\ \E out \in SelectAll(table, seq) :
        /\ table' = out.table
        /\ seq' = out.seq
        /\ Finish(r, out.result)
    /\ UNCHANGED <<req, queue, issued, atStart, rivals, blocked, created, updated, deleted>>

get_todo(r) ==
    /\ pc[r] = "holding" /\ req[r].op = "get"
    /\ \E out \in SelectById(table, seq, req[r].id) :
        /\ table' = out.table
        /\ seq' = out.seq
        /\ Finish(r, out.result)
    /\ UNCHANGED <<req, queue, issued, atStart, rivals, blocked, created, updated, deleted>>

update_todo(r) ==
    /\ pc[r] = "holding" /\ req[r].op = "update"
    /\ \E out \in UpdateReturning(table, seq, req[r].title, req[r].id) :
        /\ table' = out.table
        /\ seq' = out.seq
        /\ Finish(r, out.result)
        /\ updated' = IF out.result.tag = "Ok"
                         THEN [updated EXCEPT ![req[r].id] = TRUE] ELSE updated
    /\ UNCHANGED <<req, queue, issued, atStart, rivals, blocked, created, deleted>>

delete_todo(r) ==
    /\ pc[r] = "holding" /\ req[r].op = "delete"
    /\ \E out \in DeleteById(table, seq, req[r].id) :
        /\ table' = out.table
        /\ seq' = out.seq
        /\ Finish(r, out.result)
        /\ IF out.result.tag = "Ok" /\ out.result.value > 0
              THEN /\ created' = [created EXCEPT ![req[r].id] = NoRow]
                   /\ updated' = [updated EXCEPT ![req[r].id] = FALSE]
                   /\ deleted' = deleted \cup {req[r].id}
                   /\ rivals' = NoteRival(r, req[r].id)
              ELSE UNCHANGED <<created, updated, deleted, rivals>>
    /\ UNCHANGED <<req, queue, issued, atStart, blocked>>

\* The response has gone to the client and the task ends.
Retire(r) ==
    /\ pc[r] = "done"
    /\ pc' = [pc EXCEPT ![r] = "idle"]
    /\ req' = [req EXCEPT ![r] = NoRequest]
    /\ result' = [result EXCEPT ![r] = NoResult]
    /\ resp' = [resp EXCEPT ![r] = NoResponse]
    /\ issued' = [issued EXCEPT ![r] = 0]
    /\ sent' = [sent EXCEPT ![r] = 0]
    /\ atStart' = [atStart EXCEPT ![r] = FALSE]
    /\ rivals' = [rivals EXCEPT ![r] = {}]
    /\ blocked' = [blocked EXCEPT ![r] = FALSE]
    /\ UNCHANGED <<table, seq, queue, created, updated, deleted>>

Next ==
    \/ \E r \in Tasks : Arrive(r, Routes)
    \/ \E r \in Tasks : Acquire(r)
    \/ \E r \in Tasks : PoolTimedOut(r)
    \/ \E r \in Tasks : create_todo(r)
    \/ \E r \in Tasks : get_todos(r)
    \/ \E r \in Tasks : get_todo(r)
    \/ \E r \in Tasks : update_todo(r)
    \/ \E r \in Tasks : delete_todo(r)
    \/ \E r \in Tasks : Retire(r)

Spec == Init /\ [][Next]_vars

\* A burst of list requests, more than the pool has connections.
NextPool ==
    \/ \E r \in Tasks : Arrive(r, ListOnly)
    \/ \E r \in Tasks : Acquire(r)
    \/ \E r \in Tasks : PoolTimedOut(r)
    \/ \E r \in Tasks : get_todos(r)

\* The runtime polls every ready task, the pool wakes its first waiter when a
\* connection is free, and the store answers every statement; the acquire
\* timeout is not something that must happen.
PoolFairness ==
    \A r \in PoolRequests : WF_vars(Acquire(r)) /\ WF_vars(get_todos(r))

SpecPool == InitPool /\ [][NextPool]_vars /\ PoolFairness

\* ------------------------------------------------------------------ claims
\* The step in which task r's statement ran on its connection and its handler
\* answered (the statement may have failed).
Executes(r, o) == pc[r] = "holding" /\ pc'[r] = "done" /\ req[r].op = o

Range(s) == {s[k] : k \in DOMAIN s}

\* C1: a create that the store executes successfully adds exactly one row,
\* leaves the existing rows as they were, and answers 201 with the requested
\* title, completed = false and a positive id that no earlier row used.
C1_CreateAddsOneRow ==
    [][\A r \in Tasks :
        (Executes(r, "create") /\ result'[r].tag = "Ok") =>
            LET todo == resp'[r].body
            IN  /\ resp'[r].status = CREATED
                /\ todo.title = req[r].title
                /\ todo.completed = FALSE
                /\ todo.id \in Nat /\ todo.id > 0
                /\ todo.id \notin IdsOf(table)
                /\ table' = table \cup {todo}
                /\ Cardinality(table') = Cardinality(table) + 1]_vars

\* A create answered 201 for a table that already held another row.
C1_Witness ==
    \E r \in Tasks :
        /\ pc[r] = "done" /\ req[r].op = "create" /\ resp[r].status = CREATED
        /\ resp[r].body \in table
        /\ Cardinality(table) >= 2

\* C2: when the statement of an update runs, an existing id gets the requested
\* title and completed = false, keeps its id, every other row stays, and the
\* answer is 200 with the updated row; an id without a row answers 404 and the
\* table stays as it was.
C2_UpdateReplacesTitle ==
    [][\A r \in Tasks :
        (Executes(r, "update") /\ ~IsFailure(result'[r])) =>
            IF req[r].id \in IdsOf(table)
                THEN \E old \in table :
                        /\ old.id = req[r].id
                        /\ table' = (table \ {old}) \cup {Todo(old.id, req[r].title, FALSE)}
                        /\ resp'[r] = Response(OK, Todo(old.id, req[r].title, FALSE))
                ELSE /\ resp'[r].status = NOT_FOUND
                     /\ table' = table]_vars

\* An update answered 200 for the row the database started with, whose
\* completed was true.
C2_Witness ==
    \E r \in Tasks :
        /\ pc[r] = "done" /\ req[r].op = "update" /\ resp[r].status = OK
        /\ req[r].id = MaxId /\ seq = 1
        /\ resp[r].body \in table /\ resp[r].body.completed = FALSE

\* C3: when the statement of a delete runs, it answers 204 exactly if a row
\* with that id existed, and then exactly that row is gone; otherwise it
\* answers 404 and the table stays; so a second delete of an id, with no
\* create of it in between, answers 404.
C3_DeleteOnce ==
    [][\A r \in Tasks :
        (Executes(r, "delete") /\ ~IsFailure(result'[r])) =>
            /\ resp'[r].status = NO_CONTENT <=> req[r].id \in IdsOf(table)
            /\ req[r].id \in IdsOf(table) =>
                  /\ table' = table \ RowsWithId(table, req[r].id)
                  /\ Cardinality(table') = Cardinality(table) - 1
                  /\ resp'[r].body = <<>>
            /\ req[r].id \notin IdsOf(table) =>
                  /\ resp'[r].status = NOT_FOUND
                  /\ table' = table
            /\ req[r].id \in deleted =>
                  /\ resp'[r].status = NOT_FOUND
                  /\ table' = table]_vars

\* Two deletes of the starting row, no create so far: the first answered 204,
\* the second, which arrived after the row was gone, 404.
C3_Witness ==
    \E first, second \in Tasks :
        /\ first # second /\ seq = 1
        /\ pc[first] = "done" /\ req[first] = [op |-> "delete", id |-> MaxId, title |-> ""]
        /\ pc[second] = "done" /\ req[second] = req[first]
        /\ resp[first].status = NO_CONTENT
        /\ resp[second].status = NOT_FOUND
        /\ ~atStart[second]
        /\ MaxId \in deleted

\* C4: when the statement of a get-by-id runs, it answers 200 with the row of
\* that id if there is one and 404 (not 500) if there is none; the table stays
\* as it was whatever the outcome.
C4_GetById ==
    [][\A r \in Tasks :
        Executes(r, "get") =>
            /\ table' = table
            /\ ~IsFailure(result'[r]) =>
                  IF req[r].id \in IdsOf(table)
                      THEN /\ resp'[r].status = OK
                           /\ resp'[r].body \in table
                           /\ resp'[r].body.id = req[r].id
                      ELSE resp'[r].status = NOT_FOUND]_vars

\* A get answered 404 for an id whose row had been deleted before it arrived.
C4_Witness ==
    \E r \in Tasks :
        /\ pc[r] = "done" /\ req[r].op = "get" /\ resp[r].status = NOT_FOUND
        /\ ~atStart[r]
        /\ req[r].id \in deleted

\* C5: a get-by-id of a todo that a create returned, and that no update or
\* delete has touched since, answers 200 with exactly the id, title and
\* completed of the create's response, whatever else happened in between.
C5_CreateGetRoundTrip ==
    [][\A r \in Tasks :
        (/\ Executes(r, "get") /\ ~IsFailure(result'[r])
         /\ created[req[r].id] # NoRow /\ ~updated[req[r].id]) =>
            resp'[r] = Response(OK, created[req[r].id])]_vars

\* A get answered 200 with a created todo while the table held another row.
C5_Witness ==
    \E r \in Tasks :
        /\ pc[r] = "done" /\ req[r].op = "get" /\ resp[r].status = OK
        /\ created[req[r].id] = resp[r].body /\ ~updated[req[r].id]
        /\ Cardinality(table) >= 2

CreatedIds == {i \in Ids : created[i] # NoRow}

\* The answer of a list whose statement the store executed: every row of the
\* table once, in some order, and the table untouched.
ListsTheTable(r) ==
    /\ resp'[r].status = OK
    /\ Len(resp'[r].body) = Cardinality(table)
    /\ Range(resp'[r].body) = table
    /\ table' = table

\* C6 as stated: a list that the store executes answers 200 with exactly the
\* rows of the table, each once, and leaves the table; after two successful
\* creates without a delete in between it holds both todos as their creates
\* returned them.
C6_Original ==
    [][\A r \in Tasks :
        (Executes(r, "list") /\ result'[r].tag = "Ok") =>
            /\ ListsTheTable(r)
            /\ \A i, j \in CreatedIds :
                  i # j => {created[i], created[j]} \subseteq Range(resp'[r].body)]_vars

\* C6 amended: the same, for two created todos that were neither deleted nor
\* updated in between.
C6_ListReturnsTable ==
    [][\A r \in Tasks :
        (Executes(r, "list") /\ result'[r].tag = "Ok") =>
            /\ ListsTheTable(r)
            /\ \A i, j \in CreatedIds :
                  (i # j /\ ~updated[i] /\ ~updated[j]) =>
                      {created[i], created[j]} \subseteq Range(resp'[r].body)]_vars

\* A list answered 200 with two todos that two creates had returned.
C6_Witness ==
    \E r \in Tasks :
        /\ pc[r] = "done" /\ req[r].op = "list" /\ resp[r].status = OK
        /\ \E i, j \in CreatedIds :
              /\ i # j /\ ~updated[i] /\ ~updated[j]
              /\ Range(resp[r].body) = {created[i], created[j]}

\* C7: no two rows share an id, and a step changes the ids in the table only
\* by a create adding the new row's id or a delete removing the requested id:
\* a row keeps its id from creation to deletion.
C7_IdsUniqueAndStable ==
    /\ [](Cardinality(IdsOf(table)) = Cardinality(table))
    /\ [][\/ IdsOf(table') = IdsOf(table)
          \/ \E r \in Tasks :
                /\ Executes(r, "create") /\ resp'[r].status = CREATED
                /\ resp'[r].body.id \notin IdsOf(table)
                /\ IdsOf(table') = IdsOf(table) \cup {resp'[r].body.id}
                /\ table \subseteq table'
          \/ \E r \in Tasks :
                /\ Executes(r, "delete") /\ resp'[r].status = NO_CONTENT
                /\ IdsOf(table') = IdsOf(table) \ {req[r].id}
                /\ table' \subseteq table]_vars

\* An update answered 200 in a table of two rows, one of them created on top
\* of the starting row.
C7_Witness ==
    \E r \in Tasks :
        /\ pc[r] = "done" /\ req[r].op = "update" /\ resp[r].status = OK
        /\ resp[r].body \in table
        /\ Cardinality(table) = 2 /\ CreatedIds # {}

\* The statuses each handler can answer with.
Statuses(o) ==
    CASE o = "create" -> {CREATED, INTERNAL_SERVER_ERROR}
      [] o = "list"   -> {OK, INTERNAL_SERVER_ERROR}
      [] o = "get"    -> {OK, NOT_FOUND, INTERNAL_SERVER_ERROR}
      [] o = "update" -> {OK, NOT_FOUND, INTERNAL_SERVER_ERROR}
      [] o = "delete" -> {NO_CONTENT, NOT_FOUND, INTERNAL_SERVER_ERROR}

\* C8: a failure of the store other than "no row" is answered 500 by every
\* handler, the handler submitted its statement once, the failing step leaves
\* the table, and every request gets one response with a status of its handler.
C8_FailuresAnswered500 ==
    /\ [](\A r \in Tasks :
            /\ pc[r] \in {"waiting", "holding"} => issued[r] = 1 /\ sent[r] = 0
            /\ pc[r] = "done" =>
                  /\ issued[r] = 1 /\ sent[r] = 1
                  /\ resp[r].status \in Statuses(req[r].op)
                  /\ IsFailure(result[r]) => resp[r].status = INTERNAL_SERVER_ERROR)
    /\ [][\A r \in Tasks :
            (pc[r] # "done" /\ pc'[r] = "done" /\ IsFailure(result'[r])) =>
                table' = table]_vars

\* A create failed on the id of a row that was already there and was
\* answered 500.
C8_Witness ==
    \E r \in Tasks :
        /\ pc[r] = "done" /\ req[r].op = "create"
        /\ result[r] = Err("Database")
        /\ resp[r].status = INTERNAL_SERVER_ERROR

PoolFull == Cardinality(InUse) = MaxConnections

\* C9 as stated: never more than max_connections connections out; a task that
\* waits while all are out keeps waiting rather than failing; and a waiting
\* task gets a connection.
C9_Original ==
    /\ [](Cardinality(InUse) <= MaxConnections)
    /\ [][\A r \in Tasks : (pc[r] = "waiting" /\ PoolFull) => pc'[r] = "waiting"]_vars
    /\ \A r \in PoolRequests : (pc[r] = "waiting") ~> (pc[r] = "holding")

\* C9 amended: never more than max_connections connections out; a task that
\* waits while all are out gets no connection: it keeps waiting, or the pool
\* gives up on it and it answers 500; and every waiting task is answered.
C9_PoolBounded ==
    /\ [](Cardinality(InUse) <= MaxConnections)
    /\ [][\A r \in Tasks :
            (pc[r] = "waiting" /\ PoolFull) =>
                \/ pc'[r] = "waiting"
                \/ /\ pc'[r] = "done"
                   /\ result'[r] = Err("PoolTimedOut")
                   /\ resp'[r].status = INTERNAL_SERVER_ERROR]_vars
    /\ \A r \in PoolRequests : (pc[r] = "waiting") ~> (pc[r] = "done")

\* A task that arrived when all connections were out got one later and was
\* answered 200.
C9_Witness ==
    \E r \in Tasks :
        /\ blocked[r] /\ pc[r] = "done" /\ resp[r].status = OK
        /\ result[r].tag = "Ok"

\* C10: an update and a delete of one id, both arriving while its row exists,
\* neither failing in the store, and no other task creating or deleting that
\* row since they arrived: when the second of them is answered, the delete has answered
\* 204, the update 200 with the updated row or 404, and the row is gone.
C10_UpdateDeleteSerial ==
    [][\A u, d \in Tasks :
        (/\ u # d
         /\ pc'[u] = "done" /\ pc'[d] = "done"
         /\ ~(pc[u] = "done" /\ pc[d] = "done")
         /\ req'[u].op = "update" /\ req'[d].op = "delete"
         /\ req'[u].id = req'[d].id
         /\ atStart'[u] /\ atStart'[d]
         /\ ~IsFailure(result'[u]) /\ ~IsFailure(result'[d])
         /\ rivals'[u] \subseteq {d} /\ rivals'[d] = {}) =>
            /\ resp'[d].status = NO_CONTENT
            /\ \/ resp'[u] = Response(OK, Todo(req'[u].id, req'[u].title, FALSE))
               \/ resp'[u].status = NOT_FOUND
            /\ req'[u].id \notin IdsOf(table')]_vars

\* The delete ran while the update was in flight: the update, which had
\* arrived when the row existed, answered 404 and the delete 204.
C10_Witness ==
    \E u, d \in Tasks :
        /\ pc[u] = "done" /\ pc[d] = "done"
        /\ req[u].op = "update" /\ req[d].op = "delete" /\ req[u].id = req[d].id
        /\ atStart[u] /\ atStart[d]
        /\ rivals[u] = {d} /\ rivals[d] = {}
        /\ resp[u].status = NOT_FOUND /\ resp[d].status = NO_CONTENT
        /\ req[u].id \notin IdsOf(table)

====
